---- MODULE Spec2Model ----
(***************************************************************************)
(* StoreConnector (src/src/StoreConnector.jsx): a React component that     *)
(* subscribes to a Store, filters its change notifications against a       *)
(* property map and projects Store values into the properties of a wrapped *)
(* component.  The file holds two variants of the class: the first (lines  *)
(* 21-224) and an older, more permissive second one (lines 240-358).       *)
(***************************************************************************)
EXTENDS Integers, Sequences, FiniteSets, TLC

(* ------------------------------ bounds -------------------------------- *)

\* Stores are 1..NumStores; 0 stands for "no store".
NumStores == 2
\* Connector instances are 1..NumConns; Init and InitProj build the first one,
\* the others stay unbuilt (phase "none").
NumConns == 2
\* Longest array of type tags a change event carries.
MaxTags == 2
\* Most entries of a property map handed to the projector.
MaxEntries == 2
\* The callback counters stop counting here.
MaxCalls == 2

Stores == 1..NumStores
Conns == 1..NumConns
NoStore == 0

(* ------------------------------ values -------------------------------- *)

\* A JavaScript value: t is its typeof-like tag, v a name, n a number, and,
\* for a function produced by fn.bind(scope), scope the Store it is bound to
\* and n the identity of that bound function.
Undefined == [t |-> "undefined", v |-> "", n |-> 0, scope |-> NoStore]
Null == [t |-> "null", v |-> "", n |-> 0, scope |-> NoStore]
Str(s) == [t |-> "string", v |-> s, n |-> 0, scope |-> NoStore]
Num(i) == [t |-> "number", v |-> "", n |-> i, scope |-> NoStore]
Fn(f) == [t |-> "function", v |-> f, n |-> 0, scope |-> NoStore]
Element(e) == [t |-> "element", v |-> e, n |-> 0, scope |-> NoStore]
ElementArray(k) == [t |-> "array", v |-> "elements", n |-> k, scope |-> NoStore]

\* fn.bind(scope): a new function object, the id-th one made.
Bind(fn, s, id) == [t |-> "function", v |-> fn.v, n |-> id, scope |-> s]

\* typeof x === 'string', typeof x === 'function', x != null
IsString(x) == x.t = "string"
IsFunction(x) == x.t = "function"
NotNullish(x) == x.t \notin {"undefined", "null"}

\* An object used as a property bag: a function from property names to values.
EmptyBag == [n \in {} |-> Undefined]
SetProp(bag, name, val) == [n \in DOMAIN bag \cup {name} |-> IF n = name THEN val ELSE bag[n]]
DeleteProp(bag, name) == [n \in DOMAIN bag \ {name} |-> bag[n]]

(* --------------------------- property maps ---------------------------- *)

\* _propMap: absent (undefined), or an object whose entries are kept in
\* insertion order, the order Object.keys walks them in.
NoMap == [present |-> FALSE, entries |-> <<>>]
Map(es) == [present |-> TRUE, entries |-> es]
Entry(k, val) == [key |-> k, val |-> val]
MapKeys(pm) == {pm.entries[i].key : i \in DOMAIN pm.entries}

\* Object.prototype.hasOwnProperty.call(_propMap, prop)
hasOwnProperty(pm, prop) == prop \in MapKeys(pm)

(* --------------------------- change events ---------------------------- *)

\* The type of a change event: missing, one string tag, or an array of tags.
NoType == [k |-> "undefined", s |-> "", a |-> <<>>]
Tag(s) == [k |-> "string", s |-> s, a |-> <<>>]
Tags(a) == [k |-> "array", s |-> "", a |-> a]

TagNames == {"X", "Y"}
TagArrays == UNION {[1..n -> TagNames] : n \in 0..MaxTags}
EventTypes == {NoType, Tag("")} \cup {Tag(s) : s \in TagNames} \cup {Tags(a) : a \in TagArrays}

\* !type
Falsy(type) == type.k = "undefined" \/ (type.k = "string" /\ type.s = "")

RECURSIVE Join(_)
\* Array.prototype.join(','), what String(array) gives
Join(a) == IF a = <<>> THEN "" ELSE IF Len(a) = 1 THEN a[1] ELSE a[1] \o "," \o Join(Tail(a))

\* The property key a value is converted to when used as one.
ToPropertyKey(type) == CASE type.k = "undefined" -> "undefined"
    [] type.k = "string" -> type.s
    [] OTHER -> Join(type.a)

\* variant          which of the two classes of the file runs (1: lines 21-224,
\*                  2: lines 240-358)
\* phase[c]         where React has taken connector c: "none" (not built),
\*                  "constructed", "subscribed" (componentWillMount done),
\*                  "mounted", "unmounted", "failed" (the first render threw)
\* props[c]         this.props
\* unmounted[c]     this.unmounted
\* unsubscribe[c]   this.unsubscribe: the Store its closure captured, or NoStore
\* listeners[s][c]  registrations of c's onStoreChange with Store s
\* lastAdded[c]     history: the Store of c's latest addChangeListener
\* given[c]         history: the Stores c ever called addChangeListener on
\* rendered[c]      the first render has returned
\* pending[c]       forceUpdate was requested and no render has followed
\* onMountCalls[c], onUnmountCalls[c]   calls of the two callbacks
\* storeData[s]     what Store s returns from get, by key
\* BOUND_MAP, binds the bound-function cache and the number of fn.bind calls
\* last             what the handler that ran last did (see Ran)
VARIABLES variant, phase, props, unmounted, unsubscribe, listeners, lastAdded, given,
    rendered, pending, onMountCalls, onUnmountCalls, storeData, BOUND_MAP, binds, last

vars == <<variant, phase, props, unmounted, unsubscribe, listeners, lastAdded, given,
    rendered, pending, onMountCalls, onUnmountCalls, storeData, BOUND_MAP, binds, last>>

(* ---------------------------- the Store ------------------------------ *)

\* The Store contract (the propTypes comment): listeners[s][c] counts the
\* registrations of connector c's onStoreChange with Store s.
addChangeListener(L, s, c) == [L EXCEPT ![s][c] = @ + 1]
removeChangeListener(L, s, c) == [L EXCEPT ![s][c] = IF @ > 0 THEN @ - 1 ELSE 0]

\* store.get(key): undefined for a key the Store does not hold.
get(s, key) == IF key \in DOMAIN storeData[s] THEN storeData[s][key] ELSE Undefined

Registered(c) == {s \in Stores : listeners[s][c] > 0}
Registrations(c) == LET RECURSIVE Sum(_)
                        Sum(S) == IF S = {} THEN 0
                                  ELSE LET s == CHOOSE x \in S : TRUE
                                       IN listeners[s][c] + Sum(S \ {s})
                    IN Sum(Stores)

(* ------------------------ subscription handle ------------------------- *)

\* The part of the state subscribe and unsubscribe work on, for connector c:
\* L the Stores' listeners, U this.unsubscribe (the Store its closure captured,
\* NoStore when the field is absent), added the Store of the latest
\* addChangeListener and given those of all of them so far, calls the Store
\* calls made so far by the running handler.
Sub(c) == [L |-> listeners, U |-> unsubscribe[c], added |-> lastAdded[c], given |-> given[c],
    calls |-> <<>>]

Call(name, s) == [call |-> name, store |-> s]

\* Faulty version: the closure forgets delete this.unsubscribe.
unsubscribeClosureNoDelete(st, c) == [st EXCEPT !.L = removeChangeListener(st.L, st.U, c),
    !.calls = Append(st.calls, Call("removeChangeListener", st.U))]

\* Faulty version: the closure removes every listener of the Store, not only this
\* connector's handler.
unsubscribeClosureRemovesAll(st, c) == [st EXCEPT !.L = [@ EXCEPT ![st.U] = [x \in Conns |-> 0]],
    !.U = NoStore,
    !.calls = Append(st.calls, Call("removeChangeListener", st.U))]

\* this.unsubscribe(): () => (store.removeChangeListener(this.onStoreChange),
\* delete this.unsubscribe)
unsubscribeClosure(st, c) == [st EXCEPT !.L = removeChangeListener(st.L, st.U, c),
    !.U = NoStore,
    !.calls = Append(st.calls, Call("removeChangeListener", st.U))]

\* if (this.unsubscribe) { this.unsubscribe(); }
unsubscribeIfPresent(st, c) == IF st.U # NoStore THEN unsubscribeClosure(st, c) ELSE st

\* Faulty version: subscribe does not unsubscribe from the Store it holds.
subscribeKeepOld(st, c, store) == [st EXCEPT !.L = addChangeListener(st.L, store, c),
    !.U = store,
    !.added = store,
    !.given = @ \cup {store},
    !.calls = Append(st.calls, Call("addChangeListener", store))]

\* Faulty version: subscribe registers with the new Store before it leaves the old one.
subscribeAddFirst(st, c, store) ==
    LET s1 == [st EXCEPT !.L = addChangeListener(st.L, store, c),
                         !.calls = Append(st.calls, Call("addChangeListener", store))]
        s2 == unsubscribeIfPresent(s1, c)
    IN [s2 EXCEPT !.U = store, !.added = store, !.given = @ \cup {store}]

subscribe(st, c, store) == LET s1 == unsubscribeIfPresent(st, c)
    IN [s1 EXCEPT !.L = addChangeListener(s1.L, store, c),
        !.U = store,
        !.added = store,
        !.given = @ \cup {store},
        !.calls = Append(s1.calls, Call("addChangeListener", store))]

\* Writes a subscription state back to the connector's fields.
StoreSub(st, c) == /\ listeners' = st.L
    /\ unsubscribe' = [unsubscribe EXCEPT ![c] = st.U]
    /\ lastAdded' = [lastAdded EXCEPT ![c] = st.added]
    /\ given' = [given EXCEPT ![c] = st.given]

(* --------------------- what a callback may emit ---------------------- *)

\* A change a callback makes a Store emit synchronously: the Store and the
\* type of the event; NoEmit when the callback emits nothing.
NoEmit == [store |-> NoStore, type |-> NoType]
EmitTypes == {NoType, Tag("X"), Tag("Y")}
Emits == {NoEmit} \cup {[store |-> s, type |-> t] : s \in Stores, t \in EmitTypes}

(* ------------------------- what a handler did ------------------------- *)

\* A record of the handler that ran last: its name and connector, the event
\* type it was given, the Store calls it made in order, whether it called
\* forceUpdate, whether it threw, the fields as they were when it started, what
\* its callback made a Store emit and whether the Store delivered that to this
\* connector's handler (type, forced and thrown are then the handler's), and
\* of render: the element made (node, of what, with which props: merged), the
\* props getPropsFromMap returned (out), the keys it read from the Store and
\* the assignments its loop over the map made.
Ran(op, c) == [op |-> op, conn |-> c, type |-> NoType, calls |-> <<>>,
    forced |-> FALSE, thrown |-> FALSE, wasUnmounted |-> unmounted[c],
    prevSub |-> unsubscribe[c], prevAdded |-> lastAdded[c],
    A |-> props[c]._store, B |-> props[c]._store,
    emit |-> NoEmit, delivered |-> FALSE,
    node |-> "none", target |-> Undefined, reads |-> <<>>, writes |-> <<>>,
    out |-> EmptyBag, merged |-> EmptyBag]

CountUp(n) == IF n < MaxCalls THEN n + 1 ELSE n

(* ---------------------------- change filter --------------------------- *)

\* Faulty version: every tag, not some tag, has to be a key of the map.
shouldUpdate1Every(pm, type) == LET tags == IF type.k = "array" THEN type.a ELSE <<type.s>>
    IN IF Falsy(type) /\ pm.present
       THEN [thrown |-> TRUE, forced |-> FALSE]
       ELSE [thrown |-> FALSE,
             forced |-> ~pm.present \/ \A i \in DOMAIN tags : hasOwnProperty(pm, tags[i])]

\* Faulty version: a missing type is not checked for.
shouldUpdate1NoThrow(pm, type) == LET tags == IF type.k = "array" THEN type.a ELSE <<type.s>>
    IN [thrown |-> FALSE,
        forced |-> ~pm.present \/ \E i \in DOMAIN tags : hasOwnProperty(pm, tags[i])]

\* What onStoreChange decides for a connector that is not unmounted, first
\* variant: throw when the type is missing and a map is configured; wrap a
\* single tag into an array; update when there is no map or some tag is an own
\* key of the map.
shouldUpdate1(pm, type) == LET tags == IF type.k = "array" THEN type.a ELSE <<type.s>>
    IN IF Falsy(type) /\ pm.present
       THEN [thrown |-> TRUE, forced |-> FALSE]
       ELSE [thrown |-> FALSE,
             forced |-> ~pm.present \/ \E i \in DOMAIN tags : hasOwnProperty(pm, tags[i])]

\* Faulty version: the second variant rejects a missing type as the first does.
shouldUpdate2Strict(pm, type) == IF ~pm.present \/ Falsy(type)
    THEN [thrown |-> TRUE, forced |-> FALSE]
    ELSE [thrown |-> FALSE, forced |-> hasOwnProperty(pm, ToPropertyKey(type))]

\* Second variant: if (_propMap.hasOwnProperty(type)) this.forceUpdate();
\* the type is converted to a property key; an absent map is a TypeError.
shouldUpdate2(pm, type) == IF ~pm.present
    THEN [thrown |-> TRUE, forced |-> FALSE]
    ELSE [thrown |-> FALSE, forced |-> hasOwnProperty(pm, ToPropertyKey(type))]

shouldUpdate(v, pm, type) == IF v = 1 THEN shouldUpdate1(pm, type) ELSE shouldUpdate2(pm, type)

\* Faulty version: the type is checked before the unmounted guard.
handlerTypeFirst(st, c, type, dead) == LET r == shouldUpdate(variant, props[c]._propMap, type)
    IN IF dead /\ ~r.thrown
       THEN [st |-> unsubscribeIfPresent(st, c), thrown |-> FALSE, forced |-> FALSE]
       ELSE [st |-> st, thrown |-> r.thrown, forced |-> r.forced]

\* onStoreChange = ({type} = {}) => {...}, run on the subscription state st, dead
\* being this.unmounted: unmounted, it unsubscribes (when there is something to
\* unsubscribe) and returns; otherwise it filters.
handler(st, c, type, dead) == IF dead
    THEN [st |-> unsubscribeIfPresent(st, c), thrown |-> FALSE, forced |-> FALSE]
    ELSE LET r == shouldUpdate(variant, props[c]._propMap, type)
         IN [st |-> st, thrown |-> r.thrown, forced |-> r.forced]

storeChange(c, type) == LET h == handler(Sub(c), c, type, unmounted[c])
    IN /\ StoreSub(h.st, c)
       /\ pending' = [pending EXCEPT ![c] = @ \/ h.forced]
       /\ last' = [Ran("onStoreChange", c) EXCEPT !.type = type, !.calls = h.st.calls,
                      !.forced = h.forced, !.thrown = h.thrown]

\* What a callback does to the connector that calls it: nothing, or it makes a
\* Store emit a change while it runs, and the Store calls the handlers
\* registered with it at that moment, this connector's among them if it is
\* registered there.  (Other connectors' handlers run as onStoreChange steps.)
emitted(st, c, e, dead) == IF e # NoEmit /\ st.L[e.store][c] > 0
    THEN handler(st, c, e.type, dead) @@ [delivered |-> TRUE]
    ELSE [st |-> st, thrown |-> FALSE, forced |-> FALSE, delivered |-> FALSE]

\* A Store delivers a change to the handler: any time after the handler was
\* first registered, also late, after it was deregistered.
onStoreChange(c) == /\ phase[c] \in {"subscribed", "mounted", "unmounted", "failed"}
    /\ \E type \in EventTypes : storeChange(c, type)
    /\ UNCHANGED <<variant, phase, props, unmounted, rendered, onMountCalls, onUnmountCalls,
                   storeData, BOUND_MAP, binds>>

(* ------------------------- lifecycle handlers ------------------------- *)

\* Faulty version: the onMount callback is called on componentWillMount, before the
\* first render.
componentWillMountCallsOnMount(c) == /\ phase[c] = "constructed"
    /\ LET st == subscribe(Sub(c), c, props[c]._store)
       IN /\ StoreSub(st, c)
          /\ last' = [Ran("componentWillMount", c) EXCEPT !.calls = st.calls]
    /\ phase' = [phase EXCEPT ![c] = "subscribed"]
    /\ onMountCalls' = [onMountCalls EXCEPT ![c] = IF props[c]._onMount THEN CountUp(@) ELSE @]
    /\ UNCHANGED <<variant, props, unmounted, rendered, pending,
                   onUnmountCalls, storeData, BOUND_MAP, binds>>

\* Faulty version: componentWillMount does not subscribe.
componentWillMountNoSubscribe(c) == /\ phase[c] = "constructed"
    /\ StoreSub(Sub(c), c)
    /\ last' = Ran("componentWillMount", c)
    /\ phase' = [phase EXCEPT ![c] = "subscribed"]
    /\ UNCHANGED <<variant, props, unmounted, rendered, pending, onMountCalls,
                   onUnmountCalls, storeData, BOUND_MAP, binds>>

componentWillMount(c) == /\ phase[c] = "constructed"
    /\ LET st == subscribe(Sub(c), c, props[c]._store)
       IN /\ StoreSub(st, c)
          /\ last' = [Ran("componentWillMount", c) EXCEPT !.calls = st.calls]
    /\ phase' = [phase EXCEPT ![c] = "subscribed"]
    /\ UNCHANGED <<variant, props, unmounted, rendered, pending, onMountCalls,
                   onUnmountCalls, storeData, BOUND_MAP, binds>>

\* Runs once, after the first render; the callback is called with no arguments
\* and may make a Store emit before it returns.
componentDidMount(c) == /\ phase[c] = "subscribed"
    /\ rendered[c]
    /\ phase' = [phase EXCEPT ![c] = "mounted"]
    /\ onMountCalls' = [onMountCalls EXCEPT ![c] = IF props[c]._onMount THEN CountUp(@) ELSE @]
    /\ \E e \in Emits :
          /\ props[c]._onMount \/ e = NoEmit
          /\ LET h == emitted(Sub(c), c, e, unmounted[c])
             IN /\ StoreSub(h.st, c)
                /\ pending' = [pending EXCEPT ![c] = @ \/ h.forced]
                /\ last' = [Ran("componentDidMount", c) EXCEPT !.emit = e, !.type = e.type,
                               !.delivered = h.delivered, !.calls = h.st.calls,
                               !.forced = h.forced, !.thrown = h.thrown]
    /\ UNCHANGED <<variant, props, unmounted, rendered, onUnmountCalls, storeData, BOUND_MAP, binds>>

\* Faulty version: componentWillReceiveProps keeps the subscription it has when the
\* Store changes.
receivePropsNoResubscribe(c, nextProps) == LET st == Sub(c)
    IN /\ StoreSub(st, c)
       /\ props' = [props EXCEPT ![c] = nextProps]
       /\ last' = [Ran("componentWillReceiveProps", c) EXCEPT !.calls = st.calls,
                      !.B = nextProps._store]

\* const {_store: B} = nextProps; const {_store: A} = this.props;
\* if (A !== B) { this.subscribe(B); }   React then makes nextProps this.props.
receiveProps(c, nextProps) == LET A == props[c]._store
        B == nextProps._store
        st == IF A # B THEN subscribe(Sub(c), c, B) ELSE Sub(c)
    IN /\ StoreSub(st, c)
       /\ props' = [props EXCEPT ![c] = nextProps]
       /\ last' = [Ran("componentWillReceiveProps", c) EXCEPT !.calls = st.calls, !.B = B]

\* Faulty version: componentWillUnmount does not set this.unmounted.
unmountNoFlag(c) == LET st == unsubscribeIfPresent(Sub(c), c)
    IN /\ unmounted' = unmounted
       /\ StoreSub(st, c)
       /\ onUnmountCalls' = [onUnmountCalls EXCEPT
              ![c] = IF variant = 1 /\ props[c]._onUnmount THEN CountUp(@) ELSE @]
       /\ pending' = pending
       /\ last' = [Ran("componentWillUnmount", c) EXCEPT !.calls = st.calls]

\* Faulty version: componentWillUnmount does not invoke this.unsubscribe.
unmountNoUnsubscribe(c) == LET st == Sub(c)
    IN /\ unmounted' = [unmounted EXCEPT ![c] = TRUE]
       /\ StoreSub(st, c)
       /\ onUnmountCalls' = [onUnmountCalls EXCEPT
              ![c] = IF variant = 1 /\ props[c]._onUnmount THEN CountUp(@) ELSE @]
       /\ pending' = pending
       /\ last' = [Ran("componentWillUnmount", c) EXCEPT !.calls = st.calls]

\* Faulty version: the _onUnmount callback is called first, before the flag is set
\* and the handler deregistered.
unmountCallbackFirst(c) == \E e \in Emits :
    /\ (variant = 1 /\ props[c]._onUnmount) \/ e = NoEmit
    /\ LET h == emitted(Sub(c), c, e, unmounted[c])
           st == unsubscribeIfPresent(h.st, c)
       IN /\ unmounted' = [unmounted EXCEPT ![c] = TRUE]
          /\ StoreSub(st, c)
          /\ onUnmountCalls' = [onUnmountCalls EXCEPT
                 ![c] = IF variant = 1 /\ props[c]._onUnmount THEN CountUp(@) ELSE @]
          /\ pending' = [pending EXCEPT ![c] = @ \/ h.forced]
          /\ last' = [Ran("componentWillUnmount", c) EXCEPT !.emit = e, !.type = e.type,
                         !.delivered = h.delivered, !.calls = st.calls,
                         !.forced = h.forced, !.thrown = h.thrown]

\* The second variant: this.unmounted = true; if (this.unsubscribe) this.unsubscribe();
\* the first variant then calls the _onUnmount callback, which may make a Store
\* emit before it returns.
unmount(c) == \E e \in Emits :
    /\ (variant = 1 /\ props[c]._onUnmount) \/ e = NoEmit
    /\ LET h == emitted(unsubscribeIfPresent(Sub(c), c), c, e, TRUE)
       IN /\ unmounted' = [unmounted EXCEPT ![c] = TRUE]
          /\ StoreSub(h.st, c)
          /\ onUnmountCalls' = [onUnmountCalls EXCEPT
                 ![c] = IF variant = 1 /\ props[c]._onUnmount THEN CountUp(@) ELSE @]
          /\ pending' = [pending EXCEPT ![c] = @ \/ h.forced]
          /\ last' = [Ran("componentWillUnmount", c) EXCEPT !.emit = e, !.type = e.type,
                         !.delivered = h.delivered, !.calls = h.st.calls,
                         !.forced = h.forced, !.thrown = h.thrown]

componentWillUnmount(c) == /\ phase[c] = "mounted"
    /\ unmount(c)
    /\ phase' = [phase EXCEPT ![c] = "unmounted"]
    /\ UNCHANGED <<variant, props, rendered, onMountCalls, storeData, BOUND_MAP, binds>>

(* ------------------------- property projector ------------------------ *)

\* Faulty version: no cache is consulted, fn.bind(scope) is called every time.
getBoundFunctionNoCache(m, fn, scope) == LET b == Bind(fn, scope, m.binds + 1)
    IN [cache |-> [k \in DOMAIN m.cache \cup {<<scope, fn>>} |-> IF k = <<scope, fn>> THEN b ELSE m.cache[k]],
        binds |-> m.binds + 1, fn |-> b]

\* getBoundFunction(fn, scope): the bound function cached for (scope, fn), made
\* with fn.bind(scope) when there is none.  m holds the cache and the number of
\* bind calls made so far; the result adds the function returned.
getBoundFunction(m, fn, scope) == IF <<scope, fn>> \in DOMAIN m.cache
    THEN [cache |-> m.cache, binds |-> m.binds, fn |-> m.cache[<<scope, fn>>]]
    ELSE LET b == Bind(fn, scope, m.binds + 1)
         IN [cache |-> (<<scope, fn>> :> b) @@ m.cache, binds |-> m.binds + 1, fn |-> b]

\* Faulty version: propTypes does not declare _onMount.
PrivateKeysNoOnMount(v) == IF v = 1
    THEN <<"_store", "_component", "_propMap", "_onUnmount", "children", "_forwardedRef">>
    ELSE <<"_store", "_component", "_propMap">>

\* Object.keys(StoreConnector.propTypes), per variant.
PrivateKeys(v) == IF v = 1
    THEN <<"_store", "_component", "_propMap", "_onMount", "_onUnmount", "children", "_forwardedRef">>
    ELSE <<"_store", "_component", "_propMap", "_onMount">>

\* What ...others collects from this.props before the private keys are deleted:
\* the pass-through properties and the configuration that is not destructured,
\* each key only when it was supplied.
Others(v, p) == LET add(bag, name, val) == IF val = Undefined THEN bag ELSE SetProp(bag, name, val)
        a == add(p.others, "_onMount", IF p._onMount THEN Fn("onMount") ELSE Undefined)
        b == add(a, "_onUnmount", IF p._onUnmount THEN Fn("onUnmount") ELSE Undefined)
        d == add(b, "children", p.children)
    IN IF v = 1 THEN d
       ELSE add(add(d, "_component", p._component), "_forwardedRef", p._forwardedRef)

RECURSIVE DeletePrivate(_, _, _)
\* for (let privateKey of ...) { if (privateKey === 'children' && _component) continue;
\* delete props[privateKey]; }   (the second variant has no such exception)
DeletePrivate(bag, keys, keepChildren) == IF keys = <<>> THEN bag
    ELSE LET k == Head(keys)
         IN DeletePrivate(IF k = "children" /\ keepChildren THEN bag ELSE DeleteProp(bag, k),
                          Tail(keys), keepChildren)

\* Faulty version: a value that is not a string is assigned whenever it is not
\* undefined, null included.
projectEntryAssignsNull(v, p, acc, e) == IF IsString(e.val)
    THEN LET storeValue == get(p._store, e.key)
         IN IF v = 1 /\ IsFunction(storeValue)
            THEN LET g == getBoundFunction(acc, storeValue, p._store)
                 IN [acc EXCEPT !.bag = SetProp(acc.bag, e.val.v, g.fn), !.cache = g.cache,
                        !.binds = g.binds, !.reads = Append(@, e.key),
                        !.writes = Append(@, <<e.val.v, g.fn>>)]
            ELSE [acc EXCEPT !.bag = SetProp(acc.bag, e.val.v, storeValue),
                     !.reads = Append(@, e.key), !.writes = Append(@, <<e.val.v, storeValue>>)]
    ELSE IF e.val # Undefined
         THEN [acc EXCEPT !.bag = SetProp(acc.bag, e.key, e.val),
                  !.writes = Append(@, <<e.key, e.val>>)]
         ELSE acc

\* Faulty version: the Store value is assigned under the Store key, not under the
\* property name the map gives.
projectEntryUnderKey(v, p, acc, e) == IF IsString(e.val)
    THEN LET storeValue == get(p._store, e.key)
         IN IF v = 1 /\ IsFunction(storeValue)
            THEN LET g == getBoundFunction(acc, storeValue, p._store)
                 IN [acc EXCEPT !.bag = SetProp(acc.bag, e.key, g.fn), !.cache = g.cache,
                        !.binds = g.binds, !.reads = Append(@, e.key),
                        !.writes = Append(@, <<e.key, g.fn>>)]
            ELSE [acc EXCEPT !.bag = SetProp(acc.bag, e.key, storeValue),
                     !.reads = Append(@, e.key), !.writes = Append(@, <<e.key, storeValue>>)]
    ELSE IF NotNullish(e.val)
         THEN [acc EXCEPT !.bag = SetProp(acc.bag, e.key, e.val),
                  !.writes = Append(@, <<e.key, e.val>>)]
         ELSE acc

\* Faulty version: a string is taken as a literal when the Store holds nothing under
\* the key.
projectEntryLiteralFallback(v, p, acc, e) == IF IsString(e.val) /\ get(p._store, e.key) # Undefined
    THEN LET storeValue == get(p._store, e.key)
         IN IF v = 1 /\ IsFunction(storeValue)
            THEN LET g == getBoundFunction(acc, storeValue, p._store)
                 IN [acc EXCEPT !.bag = SetProp(acc.bag, e.val.v, g.fn), !.cache = g.cache,
                        !.binds = g.binds, !.reads = Append(@, e.key),
                        !.writes = Append(@, <<e.val.v, g.fn>>)]
            ELSE [acc EXCEPT !.bag = SetProp(acc.bag, e.val.v, storeValue),
                     !.reads = Append(@, e.key), !.writes = Append(@, <<e.val.v, storeValue>>)]
    ELSE IF NotNullish(e.val)
         THEN [acc EXCEPT !.bag = SetProp(acc.bag, e.key, e.val),
                  !.writes = Append(@, <<e.key, e.val>>)]
         ELSE acc

\* One turn of the loop over the map's keys; acc holds the props built so far
\* and the bound-function cache, and logs the keys read from the Store with
\* get and the assignments props[name] = value, both in order.
projectEntry(v, p, acc, e) == IF IsString(e.val)
    THEN LET storeValue == get(p._store, e.key)
         IN IF v = 1 /\ IsFunction(storeValue)
            THEN LET g == getBoundFunction(acc, storeValue, p._store)
                 IN [acc EXCEPT !.bag = SetProp(acc.bag, e.val.v, g.fn), !.cache = g.cache,
                        !.binds = g.binds, !.reads = Append(@, e.key),
                        !.writes = Append(@, <<e.val.v, g.fn>>)]
            ELSE [acc EXCEPT !.bag = SetProp(acc.bag, e.val.v, storeValue),
                     !.reads = Append(@, e.key), !.writes = Append(@, <<e.val.v, storeValue>>)]
    ELSE IF NotNullish(e.val)
         THEN [acc EXCEPT !.bag = SetProp(acc.bag, e.key, e.val),
                  !.writes = Append(@, <<e.key, e.val>>)]
         ELSE acc

RECURSIVE projectEntries(_, _, _, _)
projectEntries(v, p, acc, es) == IF es = <<>> THEN acc
    ELSE projectEntries(v, p, projectEntry(v, p, acc, Head(es)), Tail(es))

\* getPropsFromMap(): the received properties without the private keys (the
\* first variant adds ref), then the map's entries in key order.  An absent map
\* defaults to {}.
getPropsFromMap(v, p, m) == LET start == IF v = 1 THEN SetProp(Others(v, p), "ref", p._forwardedRef)
                     ELSE Others(v, p)
        keep == v = 1 /\ p._component # Undefined
        bag == DeletePrivate(start, PrivateKeys(v), keep)
    IN projectEntries(v, p, [bag |-> bag, cache |-> m.cache, binds |-> m.binds,
                             reads |-> <<>>, writes |-> <<>>], p._propMap.entries)

(* ------------------------------- render ------------------------------- *)

\* Faulty version: only the absence of children is an error; of several children
\* the lot is cloned.
OnlyChildThrowsWhenNone(children) == children.t = "undefined"

\* React.Children.only(children) throws unless children is one element.
OnlyChildThrows(children) == children.t # "element"

\* The props of the single child itself, which cloneElement starts from.
ElementProps(el) == ("title" :> Str("own")) @@ ("className" :> Str("child"))

\* React.cloneElement(element, config).props: the element's own props with
\* every property of config assigned over them; ref is not a prop.
cloneElement(el, config) == [n \in (DOMAIN ElementProps(el) \cup DOMAIN config) \ {"ref"} |->
    IF n \in DOMAIN config THEN config[n] ELSE ElementProps(el)[n]]

\* render(): the component type with the projected props, or, without one, the
\* single child cloned with them.  The second variant always renders the
\* component type.
renderResult(v, p, m) == LET r == getPropsFromMap(v, p, m)
    IN IF v = 2 \/ p._component # Undefined
       THEN r @@ [node |-> "createElement", target |-> p._component, thrown |-> FALSE,
                  merged |-> DeleteProp(r.bag, "ref")]
       ELSE IF OnlyChildThrows(p.children)
            THEN r @@ [node |-> "none", target |-> Undefined, thrown |-> TRUE, merged |-> EmptyBag]
            ELSE r @@ [node |-> "cloneElement", target |-> p.children, thrown |-> FALSE,
                       merged |-> cloneElement(p.children, r.bag)]

\* The first render comes between componentWillMount and componentDidMount,
\* later ones while mounted.  A first render that throws ends the mount.
render(c) == /\ (phase[c] = "subscribed" /\ ~rendered[c]) \/ phase[c] = "mounted"
    /\ LET r == renderResult(variant, props[c], [cache |-> BOUND_MAP, binds |-> binds])
       IN /\ BOUND_MAP' = r.cache
          /\ binds' = r.binds
          /\ rendered' = [rendered EXCEPT ![c] = @ \/ ~r.thrown]
          /\ pending' = [pending EXCEPT ![c] = FALSE]
          /\ phase' = [phase EXCEPT ![c] = IF r.thrown /\ phase[c] = "subscribed" THEN "failed" ELSE @]
          /\ last' = [Ran("render", c) EXCEPT !.thrown = r.thrown, !.node = r.node,
                         !.target = r.target, !.reads = r.reads, !.writes = r.writes,
                         !.out = IF r.thrown THEN EmptyBag ELSE r.bag,
                         !.merged = r.merged]
    /\ UNCHANGED <<variant, props, unmounted, unsubscribe, listeners, lastAdded, given, onMountCalls,
                   onUnmountCalls, storeData>>

(* ------------------------------ inputs -------------------------------- *)

\* this.props: the configuration keys and the pass-through properties.
Props(store, pm, onMount, onUnmount, component, children, others) ==
    [_store |-> store, _propMap |-> pm, _onMount |-> onMount, _onUnmount |-> onUnmount,
     _component |-> component, children |-> children, _forwardedRef |-> Undefined,
     others |-> others]

Component == Fn("Component")

\* The maps the lifecycle is run with: none, an empty one, one with one key, and
\* one whose keys are what a missing type, an empty tag and a two-tag array
\* turn into as property keys.
LifecycleMaps == {NoMap, Map(<<>>),
    Map(<<Entry("X", Str("value"))>>),
    Map(<<Entry("undefined", Str("u")), Entry("", Str("e")), Entry("X,Y", Str("xy"))>>)}

LifecycleProps == {Props(s, pm, m, u, Component, Undefined, EmptyBag) :
    s \in Stores, pm \in LifecycleMaps, m \in BOOLEAN, u \in BOOLEAN}

LifecycleData == [s \in Stores |-> ("X" :> Num(41 + s)) @@ ("Y" :> Str("y"))]

\* The maps the projector is run with: every sequence of at most MaxEntries
\* entries with distinct keys, and no map.
EntryKeys == {"X", "fn", "literalKey"}
EntryVals == {Str("value"), Str("X"), Str("someLiteral"), Str("_store"), Num(7), Null}
Entries == {Entry(k, x) : k \in EntryKeys, x \in EntryVals}
Distinct(es) == \A i, j \in DOMAIN es : i # j => es[i].key # es[j].key
ProjMaps == {NoMap} \cup
    {Map(es) : es \in {q \in UNION {[1..n -> Entries] : n \in 0..MaxEntries} : Distinct(q)}}

\* A component type with or without children, or no component type and zero,
\* one or two children.
ProjModes == {<<Component, Undefined>>, <<Component, Element("child")>>,
    <<Undefined, Undefined>>, <<Undefined, Element("child")>>, <<Undefined, ElementArray(2)>>}

ProjProps == {Props(s, pm, TRUE, TRUE, mode[1], mode[2], others) :
    s \in Stores, pm \in ProjMaps, mode \in ProjModes,
    others \in {EmptyBag, ("X" :> Str("passed")) @@ ("title" :> Str("t"))}}

\* get('X') is a number that differs from Store to Store, get('fn') the same
\* function F in every Store; or X holds a string and literalKey a function.
ProjData == {[s \in Stores |-> ("X" :> Num(41 + s)) @@ ("fn" :> Fn("F"))],
    [s \in Stores |-> ("X" :> Str("held")) @@ ("fn" :> Fn("F")) @@ ("literalKey" :> Fn("G"))]}

Unbuilt == Props(NoStore, NoMap, FALSE, FALSE, Undefined, Undefined, EmptyBag)

(* --------------------------- specifications --------------------------- *)

\* One connector has been constructed with its first props; nothing has run.
Init == /\ variant \in {1, 2}
    /\ \E p \in LifecycleProps : props = [c \in Conns |-> IF c = 1 THEN p ELSE Unbuilt]
    /\ phase = [c \in Conns |-> IF c = 1 THEN "constructed" ELSE "none"]
    /\ unmounted = [c \in Conns |-> FALSE]
    /\ unsubscribe = [c \in Conns |-> NoStore]
    /\ lastAdded = [c \in Conns |-> NoStore]
    /\ given = [c \in Conns |-> {}]
    /\ listeners = [s \in Stores |-> [c \in Conns |-> 0]]
    /\ rendered = [c \in Conns |-> FALSE]
    /\ pending = [c \in Conns |-> FALSE]
    /\ onMountCalls = [c \in Conns |-> 0]
    /\ onUnmountCalls = [c \in Conns |-> 0]
    /\ storeData = LifecycleData
    /\ BOUND_MAP = <<>>
    /\ binds = 0
    /\ last = Ran("constructor", 1)

\* React hands a mounted connector its next props.
componentWillReceiveProps(c) == /\ phase[c] = "mounted"
    /\ \E nextProps \in LifecycleProps : receiveProps(c, nextProps)
    /\ UNCHANGED <<variant, phase, unmounted, rendered, pending, onMountCalls, onUnmountCalls,
                   storeData, BOUND_MAP, binds>>

Next == \E c \in Conns :
    \/ componentWillMount(c)
    \/ render(c)
    \/ componentDidMount(c)
    \/ componentWillReceiveProps(c)
    \/ onStoreChange(c)
    \/ componentWillUnmount(c)

Spec == Init /\ [][Next]_vars

\* The projector: a connector that has subscribed and is about to render for
\* the first time, with any of the projector's inputs; it renders.
InitProj == /\ variant \in {1, 2}
    /\ \E p \in ProjProps :
          /\ props = [c \in Conns |-> IF c = 1 THEN p ELSE Unbuilt]
          /\ unsubscribe = [c \in Conns |-> IF c = 1 THEN p._store ELSE NoStore]
          /\ lastAdded = unsubscribe
          /\ given = [c \in Conns |-> IF c = 1 THEN {p._store} ELSE {}]
          /\ listeners = [s \in Stores |-> [c \in Conns |-> IF c = 1 /\ s = p._store THEN 1 ELSE 0]]
    /\ phase = [c \in Conns |-> IF c = 1 THEN "subscribed" ELSE "none"]
    /\ unmounted = [c \in Conns |-> FALSE]
    /\ rendered = [c \in Conns |-> FALSE]
    /\ pending = [c \in Conns |-> FALSE]
    /\ onMountCalls = [c \in Conns |-> 0]
    /\ onUnmountCalls = [c \in Conns |-> 0]
    /\ storeData \in ProjData
    /\ BOUND_MAP = <<>>
    /\ binds = 0
    /\ last = [Ran("componentWillMount", 1) EXCEPT !.prevSub = NoStore, !.prevAdded = NoStore,
                  !.calls = <<Call("addChangeListener", props[1]._store)>>]

NextProj == \E c \in Conns : render(c)

SpecProj == InitProj /\ [][NextProj]_vars

\* Bound functions: a connector of either variant whose map sends Store
\* functions (and a plain value) to property names; it renders, mounts, is given
\* other props of the same kind, among them the other Stores, and renders again.
BindMaps == {Map(<<Entry("fn", Str("onClick"))>>),
    Map(<<Entry("fn", Str("onClick")), Entry("literalKey", Str("onHover"))>>),
    Map(<<Entry("X", Str("value")), Entry("fn", Str("onClick"))>>)}

BindProps == {Props(s, pm, FALSE, FALSE, Component, Undefined, EmptyBag) :
    s \in Stores, pm \in BindMaps}

InitBind == /\ variant \in {1, 2}
    /\ \E p \in BindProps :
          /\ props = [c \in Conns |-> IF c = 1 THEN p ELSE Unbuilt]
          /\ unsubscribe = [c \in Conns |-> IF c = 1 THEN p._store ELSE NoStore]
          /\ lastAdded = unsubscribe
          /\ given = [c \in Conns |-> IF c = 1 THEN {p._store} ELSE {}]
          /\ listeners = [s \in Stores |-> [c \in Conns |-> IF c = 1 /\ s = p._store THEN 1 ELSE 0]]
    /\ phase = [c \in Conns |-> IF c = 1 THEN "subscribed" ELSE "none"]
    /\ unmounted = [c \in Conns |-> FALSE]
    /\ rendered = [c \in Conns |-> FALSE]
    /\ pending = [c \in Conns |-> FALSE]
    /\ onMountCalls = [c \in Conns |-> 0]
    /\ onUnmountCalls = [c \in Conns |-> 0]
    /\ storeData \in ProjData
    /\ BOUND_MAP = <<>>
    /\ binds = 0
    /\ last = [Ran("componentWillMount", 1) EXCEPT !.prevSub = NoStore, !.prevAdded = NoStore,
                  !.calls = <<Call("addChangeListener", props[1]._store)>>]

componentWillReceiveBindProps(c) == /\ phase[c] = "mounted"
    /\ \E nextProps \in BindProps : receiveProps(c, nextProps)
    /\ UNCHANGED <<variant, phase, unmounted, rendered, pending, onMountCalls, onUnmountCalls,
                   storeData, BOUND_MAP, binds>>

NextBind == \E c \in Conns :
    \/ render(c)
    \/ componentDidMount(c)
    \/ componentWillReceiveBindProps(c)

SpecBind == InitBind /\ [][NextBind]_vars

\* Shared Stores: two connectors have been constructed, each with a Store of
\* its own choice and a map with one key, and nothing has run; they mount,
\* render, are given other Stores, are notified and unmount in any order.
Sharing == {c \in Conns : c <= 2}

SharedProps == {Props(s, Map(<<Entry("X", Str("value"))>>), FALSE, FALSE, Component, Undefined, EmptyBag) :
    s \in Stores}

InitShared == /\ variant \in {1, 2}
    /\ \E p \in [Sharing -> SharedProps] :
          props = [c \in Conns |-> IF c \in Sharing THEN p[c] ELSE Unbuilt]
    /\ phase = [c \in Conns |-> IF c \in Sharing THEN "constructed" ELSE "none"]
    /\ unmounted = [c \in Conns |-> FALSE]
    /\ unsubscribe = [c \in Conns |-> NoStore]
    /\ lastAdded = [c \in Conns |-> NoStore]
    /\ given = [c \in Conns |-> {}]
    /\ listeners = [s \in Stores |-> [c \in Conns |-> 0]]
    /\ rendered = [c \in Conns |-> FALSE]
    /\ pending = [c \in Conns |-> FALSE]
    /\ onMountCalls = [c \in Conns |-> 0]
    /\ onUnmountCalls = [c \in Conns |-> 0]
    /\ storeData = LifecycleData
    /\ BOUND_MAP = <<>>
    /\ binds = 0
    /\ last = Ran("constructor", 1)

componentWillReceiveSharedProps(c) == /\ phase[c] = "mounted"
    /\ \E nextProps \in SharedProps : receiveProps(c, nextProps)
    /\ UNCHANGED <<variant, phase, unmounted, rendered, pending, onMountCalls, onUnmountCalls,
                   storeData, BOUND_MAP, binds>>

\* A Store delivers a change with no type or a single tag.
onSharedStoreChange(c) == /\ phase[c] \in {"subscribed", "mounted", "unmounted", "failed"}
    /\ \E type \in EmitTypes : storeChange(c, type)
    /\ UNCHANGED <<variant, phase, props, unmounted, rendered, onMountCalls, onUnmountCalls,
                   storeData, BOUND_MAP, binds>>

NextShared == \E c \in Conns :
    \/ componentWillMount(c)
    \/ render(c)
    \/ componentDidMount(c)
    \/ componentWillReceiveSharedProps(c)
    \/ onSharedStoreChange(c)
    \/ componentWillUnmount(c)

SpecShared == InitShared /\ [][NextShared]_vars

(* ------------------------------ claims -------------------------------- *)

\* The connector the last handler ran on, its property map, and the tags of
\* the event it was given: none for a missing type, one for a single tag.
Self == last.conn
SelfMap == props[Self]._propMap
EventTags == IF last.type.k = "array" THEN {last.type.a[i] : i \in DOMAIN last.type.a}
    ELSE IF last.type.k = "string" THEN {last.type.s} ELSE {}
Filtered == last.op = "onStoreChange" /\ ~last.wasUnmounted

\* C1, as stated: on a change delivered to a mounted connector, forceUpdate is
\* requested iff the map is empty or absent, or some tag of the event is a key
\* of the map.
C1_AsStated == (Filtered /\ phase[Self] = "mounted")
    => (last.forced <=> (~SelfMap.present \/ SelfMap.entries = <<>>
                         \/ EventTags \cap MapKeys(SelfMap) # {}))

\* C1, amended: on a change delivered to a connector that is not unmounted, the
\* first variant requests forceUpdate iff the map is absent, or the type is a
\* non-empty tag or an array and some tag is an own key of the map (an empty map
\* never asks for one); the second variant requests it iff the map is present
\* and the type, converted to a property key, is an own key of it.
C1_ReRenderIff == Filtered
    => IF variant = 1
       THEN last.forced <=> (~SelfMap.present
                             \/ (~Falsy(last.type) /\ EventTags \cap MapKeys(SelfMap) # {}))
       ELSE last.forced <=> (SelfMap.present /\ ToPropertyKey(last.type) \in MapKeys(SelfMap))

\* A two-tag event whose second tag alone is a key of the map made a mounted
\* connector of the first variant update.
C1_Witness == /\ Filtered /\ variant = 1 /\ phase[Self] = "mounted"
    /\ last.type = Tags(<<"Y", "X">>)
    /\ MapKeys(SelfMap) = {"X"}
    /\ last.forced

\* C2: the handler of a connector is registered with at most one Store; the
\* unsubscribe capability it holds is that of its latest subscription and is
\* registered there; and a handler deregisters only from the Store of the
\* latest subscription, which is the capability it held.
C2_OneSubscription ==
    /\ \A c \in Conns : Registrations(c) <= 1
    /\ \A c \in Conns : unsubscribe[c] # NoStore
          => (unsubscribe[c] = lastAdded[c] /\ Registered(c) = {unsubscribe[c]})
    /\ \A i \in DOMAIN last.calls : last.calls[i].call = "removeChangeListener"
          => (last.calls[i].store = last.prevAdded /\ last.prevSub = last.prevAdded)

\* A connector that went from one Store to another and is now torn down:
\* unmount cleared the capability of the second subscription.
C2_Witness == /\ last.op = "componentWillUnmount"
    /\ given[Self] = {1, 2}
    /\ last.calls = <<Call("removeChangeListener", 2)>>
    /\ last.prevAdded = 2
    /\ Registrations(Self) = 0

\* C3: once componentWillUnmount has run, a change delivered to the connector
\* requests no re-render and raises nothing, and the connector holds no
\* unsubscribe capability.
C3_NoUpdateAfterUnmount == \A c \in Conns : phase[c] = "unmounted"
    => /\ unmounted[c]
       /\ unsubscribe[c] = NoStore
       /\ ((last.op = "onStoreChange" /\ Self = c) => (~last.forced /\ ~last.thrown))

\* A change whose tag is a key of the map reached an unmounted connector.
C3_Witness == /\ last.op = "onStoreChange" /\ phase[Self] = "unmounted"
    /\ last.type = Tag("X")
    /\ "X" \in MapKeys(SelfMap)
    /\ ~last.forced

\* C4: componentWillReceiveProps with a Store B other than the held Store A
\* calls removeChangeListener on A and then addChangeListener on B, and nothing
\* else; with the same Store it makes no Store call.
C4_SwitchOrder == last.op = "componentWillReceiveProps"
    => IF last.A # last.B
       THEN /\ last.calls = <<Call("removeChangeListener", last.A),
                              Call("addChangeListener", last.B)>>
            /\ Registered(Self) = {last.B}
       ELSE /\ last.calls = <<>>
            /\ Registered(Self) = {last.A}

\* The connector was switched from Store 1 to Store 2.
C4_Witness == /\ last.op = "componentWillReceiveProps"
    /\ last.A = 1 /\ last.B = 2
    /\ Len(last.calls) = 2

\* C5: a second invocation of the unsubscribe capability is a no-op.  Unmount
\* invokes it; from then on no step deregisters or registers the handler
\* anywhere, the capability stays absent, and a later invocation (a change
\* arriving late) makes no Store call and raises nothing.
C5_UnsubscribeTwice == [][\A c \in Conns : phase[c] = "unmounted"
    => /\ \A s \in Stores : listeners'[s][c] = listeners[s][c]
       /\ unsubscribe[c] = NoStore /\ unsubscribe'[c] = NoStore
       /\ lastAdded'[c] = lastAdded[c]
       /\ (last'.conn = c /\ last' # last) => (last'.calls = <<>> /\ ~last'.thrown)]_vars

\* After unmount a late change came in and found no capability to invoke.
C5_Witness == /\ last.op = "onStoreChange" /\ last.wasUnmounted
    /\ last.prevSub = NoStore
    /\ last.prevAdded # NoStore
    /\ last.calls = <<>>

\* C6: in the first variant, a change with a missing (or empty) type delivered
\* to a connector that is not unmounted and has a property map makes
\* onStoreChange throw: no forceUpdate, no Store call, the capability and the
\* registrations as they were.
C6_MissingTypeThrows == (Filtered /\ variant = 1 /\ Falsy(last.type) /\ SelfMap.present)
    => /\ last.thrown /\ ~last.forced
       /\ last.calls = <<>>
       /\ unsubscribe[Self] = last.prevSub /\ lastAdded[Self] = last.prevAdded
       /\ Registered(Self) = {last.prevSub}

\* A change without a type reached a mounted connector with a one-key map.
C6_Witness == /\ Filtered /\ variant = 1 /\ phase[Self] = "mounted"
    /\ last.type = NoType
    /\ MapKeys(SelfMap) = {"X"}
    /\ last.thrown

\* C7: after componentWillUnmount the handler is registered with none of the
\* Stores the connector was ever subscribed to, nor with any other.
C7_NoListenerLeak == \A c \in Conns : phase[c] = "unmounted"
    => /\ \A s \in given[c] : listeners[s][c] = 0
       /\ Registered(c) = {}

\* A connector that was subscribed to every Store in turn and had a re-render
\* requested has been unmounted.
C7_Witness == /\ last.op = "componentWillUnmount"
    /\ given[Self] = Stores
    /\ last.calls # <<>>
    /\ pending[Self]

\* C8: the onMount callback is called only by componentDidMount, once when it
\* is configured, and that is after the first render; the onUnmount callback
\* (first variant) is called only by componentWillUnmount, once when it is
\* configured.  No other step calls either.
C8_CallbacksOnce ==
    /\ [](\A c \in Conns : /\ onMountCalls[c] <= 1 /\ onUnmountCalls[c] <= 1
                           /\ onMountCalls[c] = 1 => rendered[c]
                           /\ onUnmountCalls[c] = 1 => phase[c] = "unmounted")
    /\ [][\A c \in Conns :
            /\ onMountCalls'[c] = onMountCalls[c] +
                  (IF phase[c] = "subscribed" /\ phase'[c] = "mounted" /\ props[c]._onMount
                   THEN 1 ELSE 0)
            /\ onUnmountCalls'[c] = onUnmountCalls[c] +
                  (IF phase[c] = "mounted" /\ phase'[c] = "unmounted" /\ variant = 1
                      /\ props[c]._onUnmount
                   THEN 1 ELSE 0)]_vars

\* A connector of the first variant with both callbacks that was notified of
\* a change, switched Stores and was unmounted: each callback was called once.
C8_Witness == /\ variant = 1 /\ phase[1] = "unmounted"
    /\ onMountCalls[1] = 1 /\ onUnmountCalls[1] = 1
    /\ given[1] = {1, 2}
    /\ pending[1]

\* The last handler was a render that returned; its connector's props, the
\* entries of its map, and the property each entry writes.
Projected == last.op = "render" /\ ~last.thrown
SelfProps == props[Self]
SelfEntries == SelfMap.entries
Writes(e) == IF IsString(e.val) THEN {e.val.v} ELSE IF NotNullish(e.val) THEN {e.key} ELSE {}
Overwritten(i) == \E j \in DOMAIN SelfEntries : j > i /\ SelfEntries[i].val.v \in Writes(SelfEntries[j])
Received == DOMAIN SelfProps.others \cup {"ref", "children"}
\* x is the Store value g, or, first variant and g callable, g bound to the Store.
Exposes(x, g) == IF variant = 1 /\ IsFunction(g)
    THEN IsFunction(x) /\ x.v = g.v /\ x.scope = SelfProps._store
    ELSE x = g

\* C9, as stated: for every entry key -> name with a string value, the
\* projected properties hold under name the value the Store returns for
\* get(key), and the key is not a property the projection introduced.
C9_AsStated == Projected => \A i \in DOMAIN SelfEntries :
    LET e == SelfEntries[i]
    IN IsString(e.val)
       => /\ e.val.v \in DOMAIN last.out
          /\ last.out[e.val.v] = get(SelfProps._store, e.key)
          /\ e.key \in DOMAIN last.out => e.key \in Received

\* C9, amended: for every entry key -> name with a string value that no later
\* entry of the map overwrites, the projected properties hold under name the
\* value of get(key), or, in the first variant and for a callable value, that
\* function bound to the Store; and the key is a property only when it was
\* received as a property or some entry writes it as its property name.
C9_StringEntryProjected == Projected => \A i \in DOMAIN SelfEntries :
    LET e == SelfEntries[i]
        g == get(SelfProps._store, e.key)
    IN IsString(e.val)
       => /\ ~Overwritten(i)
             => /\ e.val.v \in DOMAIN last.out
                /\ Exposes(last.out[e.val.v], g)
          /\ e.key \in DOMAIN last.out
             => e.key \in Received \cup UNION {Writes(SelfEntries[j]) : j \in DOMAIN SelfEntries}

\* get('X') is 42 and the map is {X: 'value'}: value is 42 and there is no X.
C9_Witness == /\ Projected
    /\ SelfEntries = <<Entry("X", Str("value"))>>
    /\ get(SelfProps._store, "X") = Num(42)
    /\ last.out["value"] = Num(42)
    /\ "X" \notin DOMAIN last.out

\* C10, as stated: the map {literalKey: 'someLiteral'}, the Store holding
\* nothing under someLiteral, gives literalKey = 'someLiteral'.
C10_AsStated == (Projected /\ SelfEntries = <<Entry("literalKey", Str("someLiteral"))>>
                 /\ "someLiteral" \notin DOMAIN storeData[SelfProps._store])
    => /\ "literalKey" \in DOMAIN last.out
       /\ last.out["literalKey"] = Str("someLiteral")

\* C10, amended: with the one-entry map {literalKey: L}, a string L such as
\* 'someLiteral' is taken as a property name: the projection holds under L what
\* get('literalKey') returns (undefined when the Store has no such key, the
\* bound function when it is callable) and adds no literalKey; L is passed
\* verbatim under literalKey only when it is neither a string nor null.
C10_StringIsPropName == \A x \in EntryVals :
    (Projected /\ SelfEntries = <<Entry("literalKey", x)>> /\ "literalKey" \notin Received)
    => IF IsString(x)
       THEN /\ x.v \in DOMAIN last.out
            /\ Exposes(last.out[x.v], get(SelfProps._store, "literalKey"))
            /\ "literalKey" \notin DOMAIN last.out
       ELSE IF NotNullish(x)
            THEN "literalKey" \in DOMAIN last.out /\ last.out["literalKey"] = x
            ELSE "literalKey" \notin DOMAIN last.out

\* {literalKey: 'someLiteral'} with a Store that holds no literalKey: the
\* projection has someLiteral = undefined and no literalKey.
C10_Witness == /\ Projected
    /\ SelfEntries = <<Entry("literalKey", Str("someLiteral"))>>
    /\ "literalKey" \notin DOMAIN storeData[SelfProps._store]
    /\ "someLiteral" \in DOMAIN last.out
    /\ last.out["someLiteral"] = Undefined
    /\ "literalKey" \notin DOMAIN last.out

\* C15: from componentWillMount to componentWillUnmount the handler of a
\* connector is registered, once, with exactly the Store its current props
\* name, and with no other Store, and the unsubscribe capability it holds is
\* that Store's; a Store left and supplied again (A, B, A) is no exception.
C15_RegisteredIsCurrent == \A c \in Conns : phase[c] \in {"subscribed", "mounted", "failed"}
    => /\ Registered(c) = {props[c]._store}
       /\ listeners[props[c]._store][c] = 1
       /\ unsubscribe[c] = props[c]._store

\* A connector mounted on Store 1 and moved to Store 2 has just been given
\* Store 1 again: it is registered with Store 1 alone.
C15_Witness == /\ last.op = "componentWillReceiveProps" /\ phase[Self] = "mounted"
    /\ given[Self] = {1, 2}
    /\ last.A = 2 /\ last.B = 1
    /\ last.calls = <<Call("removeChangeListener", 2), Call("addChangeListener", 1)>>
    /\ Registered(Self) = {1}

\* C17: in the second variant a change with a missing type, delivered to a
\* connector that has a map and is not unmounted, raises nothing; the type as
\* it is (undefined becomes the key 'undefined', an empty tag the key '') is
\* looked up among the map's own keys, and forceUpdate is requested exactly
\* when it is one of them.
C17_MissingTypeLookedUp == (Filtered /\ variant = 2 /\ SelfMap.present /\ Falsy(last.type))
    => /\ ~last.thrown
       /\ last.forced <=> (IF last.type = NoType THEN "undefined" ELSE "") \in MapKeys(SelfMap)

\* A change without a type reached a mounted connector of the second variant
\* whose map has the key 'undefined': it asked for an update and nothing was
\* raised.
C17_Witness == /\ Filtered /\ variant = 2 /\ phase[Self] = "mounted"
    /\ last.type = NoType
    /\ "undefined" \in MapKeys(SelfMap)
    /\ last.forced /\ ~last.thrown

\* C18: in the first variant the unmounted guard comes before the check for a
\* missing type: a change without a type that reaches a connector after
\* componentWillUnmount, a map being configured, raises nothing and requests no
\* re-render.
C18_GuardBeforeTypeCheck ==
    (last.op = "onStoreChange" /\ last.wasUnmounted /\ variant = 1
     /\ Falsy(last.type) /\ SelfMap.present)
    => (~last.thrown /\ ~last.forced)

\* A change without a type reached an unmounted connector of the first variant
\* that has a map with keys.
C18_Witness == /\ last.op = "onStoreChange" /\ last.wasUnmounted /\ variant = 1
    /\ phase[Self] = "unmounted"
    /\ last.type = NoType
    /\ MapKeys(SelfMap) = {"X"}
    /\ ~last.thrown /\ ~last.forced

\* The entries of the map that hold a string, and the names the entries after
\* the i-th assign.
IsStringEntry(e) == IsString(e.val)
IsLiteralEntry(e) == ~IsString(e.val) /\ NotNullish(e.val)
WrittenAfter(i) == UNION {Writes(SelfEntries[j]) : j \in {k \in DOMAIN SelfEntries : k > i}}
WrittenByOthers(i) == UNION {Writes(SelfEntries[j]) : j \in DOMAIN SelfEntries \ {i}}

\* C16: in a render, an entry of the map whose value is neither a string nor
\* null or undefined is assigned as it is under the entry's own key, and the
\* Store is read for string entries only, once each, under the entry's key; the
\* projection holds that value under the key unless a later entry assigns the
\* same name.  An entry whose value is null or undefined makes no assignment:
\* its key is in the projection only when it was received or another entry
\* assigns it.
C16_LiteralEntryVerbatim == last.op = "render"
    => /\ last.reads = [i \in DOMAIN SelectSeq(SelfEntries, IsStringEntry) |->
                           SelectSeq(SelfEntries, IsStringEntry)[i].key]
       /\ Len(last.writes) = Len(SelfEntries) - Len(SelectSeq(SelfEntries, LAMBDA e : ~NotNullish(e.val)))
       /\ \A i \in DOMAIN SelfEntries : LET e == SelfEntries[i] IN
             /\ IsLiteralEntry(e)
                   => /\ \E w \in DOMAIN last.writes : last.writes[w] = <<e.key, e.val>>
                      /\ (~last.thrown /\ e.key \notin WrittenAfter(i))
                            => (e.key \in DOMAIN last.out /\ last.out[e.key] = e.val)
             /\ ~NotNullish(e.val)
                   => /\ \A w \in DOMAIN last.writes :
                            last.writes[w][1] = e.key => e.key \in WrittenByOthers(i)
                      /\ (e.key \notin Received \cup WrittenByOthers(i))
                            => e.key \notin DOMAIN last.out

\* The map {literalKey: 7, X: null}, the Store holding a value under X and
\* nothing being passed through: the projection has literalKey = 7 and no X,
\* and the Store was not read.
C16_Witness == /\ Projected
    /\ SelfEntries = <<Entry("literalKey", Num(7)), Entry("X", Null)>>
    /\ "X" \in DOMAIN storeData[SelfProps._store]
    /\ SelfProps.others = EmptyBag
    /\ last.out["literalKey"] = Num(7)
    /\ "X" \notin DOMAIN last.out
    /\ last.reads = <<>>
    /\ last.writes = <<<<"literalKey", Num(7)>>>>

\* The configuration keys of a connector: the Store, the map, the callbacks
\* and the component type (the second variant has no unmount callback and no
\* forwarded ref); and the names the entries of the map assign.
ConfigKeys(v) == IF v = 1
    THEN {"_store", "_propMap", "_onMount", "_onUnmount", "_component", "_forwardedRef"}
    ELSE {"_store", "_propMap", "_onMount", "_component"}
Assigned == UNION {Writes(SelfEntries[i]) : i \in DOMAIN SelfEntries}

\* C12, as stated: whatever was received and whatever the map, the props
\* getPropsFromMap returns have none of the configuration keys.
C12_AsStated == last.op = "render" => \A k \in ConfigKeys(variant) : k \notin DOMAIN last.out

\* C12, amended: no configuration key received by the connector is in the
\* props getPropsFromMap returns, or in the props of the element rendered; a
\* configuration key is there only when an entry of the map assigns that name
\* (the map {X: '_store'} gives _store = get('X')), and then it holds what the
\* entry assigned.
C12_NoReceivedConfigKey == last.op = "render" => \A k \in ConfigKeys(variant) :
    /\ k \in DOMAIN last.out
          => /\ k \in Assigned
             /\ \E w \in DOMAIN last.writes : last.writes[w] = <<k, last.out[k]>>
    /\ k \in DOMAIN last.merged => k \in DOMAIN last.out

\* A connector that received a Store, a map, both callbacks, a component type
\* and two pass-through properties rendered: the props have the pass-through
\* title and the mapped value and none of the configuration keys.
C12_Witness == /\ Projected /\ last.node = "createElement"
    /\ SelfProps._component = Component /\ SelfProps._onMount /\ SelfProps._onUnmount
    /\ SelfEntries = <<Entry("X", Str("value"))>>
    /\ {"title", "value"} \subseteq DOMAIN last.out
    /\ ConfigKeys(variant) \cap DOMAIN last.out = {}

\* C13: a render of the first variant without a component type raises and
\* returns no element when children is absent or holds two or more elements (a
\* first render that raises ends the mount); with exactly one child it returns
\* that child cloned, its props being the child's own props with every
\* projected property assigned over them.
C13_OnlyChild == (last.op = "render" /\ variant = 1 /\ SelfProps._component = Undefined)
    => IF SelfProps.children.t = "element"
       THEN /\ ~last.thrown
            /\ last.node = "cloneElement"
            /\ last.target = SelfProps.children
            /\ DOMAIN last.merged = (DOMAIN ElementProps(last.target) \cup DOMAIN last.out) \ {"ref"}
            /\ \A k \in DOMAIN last.merged :
                  last.merged[k] = IF k \in DOMAIN last.out THEN last.out[k]
                                   ELSE ElementProps(last.target)[k]
            /\ rendered[Self]
       ELSE /\ last.thrown
            /\ last.node = "none"
            /\ last.out = EmptyBag /\ last.merged = EmptyBag
            /\ ~rendered[Self] /\ phase[Self] = "failed"

\* A connector without a component type and with two children rendered: the
\* render raised and the mount ended.
C13_Witness == /\ last.op = "render" /\ variant = 1
    /\ SelfProps._component = Undefined
    /\ SelfProps.children = ElementArray(2)
    /\ last.thrown /\ last.node = "none"
    /\ phase[Self] = "failed"

\* A connector without a component type and with one child that has a title of
\* its own rendered with a title passed through: the clone has the title passed.
C13_WitnessOneChild == /\ Projected /\ variant = 1
    /\ SelfProps._component = Undefined
    /\ last.node = "cloneElement"
    /\ ElementProps(last.target)["title"] = Str("own")
    /\ last.merged["title"] = Str("t")
    /\ last.merged["className"] = Str("child")

\* C11: in the first variant, when get(key) of the connector's Store is a
\* function F and the map sends key to a name that no later entry assigns, the
\* projection holds under the name the bound function cached for (Store, F): it
\* is F bound to that Store.  An entry of the cache never changes, so every
\* render with that Store, whatever came in between, gets the identical
\* reference; and the cache holds different bound functions for different
\* Stores and for different functions, each bound to the Store of its own key.
C11_BoundFunctionStable ==
    /\ [](/\ (Projected /\ variant = 1) => \A i \in DOMAIN SelfEntries :
                LET e == SelfEntries[i]
                    F == get(SelfProps._store, e.key)
                IN (IsString(e.val) /\ IsFunction(F) /\ e.val.v \notin WrittenAfter(i))
                   => /\ <<SelfProps._store, F>> \in DOMAIN BOUND_MAP
                      /\ last.out[e.val.v] = BOUND_MAP[<<SelfProps._store, F>>]
                      /\ last.out[e.val.v].t = "function"
                      /\ last.out[e.val.v].v = F.v
                      /\ last.out[e.val.v].scope = SelfProps._store
          /\ \A k \in DOMAIN BOUND_MAP :
                /\ BOUND_MAP[k].scope = k[1] /\ BOUND_MAP[k].v = k[2].v
                /\ \A j \in DOMAIN BOUND_MAP : j # k => BOUND_MAP[j] # BOUND_MAP[k])
    /\ [][\A k \in DOMAIN BOUND_MAP : k \in DOMAIN BOUND_MAP' /\ BOUND_MAP'[k] = BOUND_MAP[k]]_vars

\* A connector with the map {fn: 'onClick'} rendered with Store 1, then with
\* Store 2, then with Store 1 again: bind was called twice in all, the cache
\* holds a bound F for each Store, the two differ, and onClick is the function
\* bound first, for Store 1.
C11_Witness == /\ Projected /\ variant = 1
    /\ SelfEntries = <<Entry("fn", Str("onClick"))>>
    /\ SelfProps._store = 1 /\ given[Self] = {1, 2}
    /\ DOMAIN BOUND_MAP = {<<1, Fn("F")>>, <<2, Fn("F")>>}
    /\ binds = 2
    /\ last.out["onClick"] = Bind(Fn("F"), 1, 1)
    /\ BOUND_MAP[<<2, Fn("F")>>] = Bind(Fn("F"), 2, 2)

\* C19: when componentDidMount starts, the handler is registered with the
\* Store of the props and the connector holds its capability; so a change that
\* Store emits while the onMount callback runs is delivered to the handler and
\* filtered as any other: the first variant raises on a missing type with a
\* map and otherwise requests an update iff there is no map or the tag is a
\* key of it, the second variant iff the type as a property key is a key of the
\* map; and a requested update is pending when the handler returns.
C19_EmitDuringOnMount == last.op = "componentDidMount"
    => /\ last.prevSub = SelfProps._store
       /\ Registered(Self) = {SelfProps._store}
       /\ last.emit.store = SelfProps._store
             => /\ last.delivered
                /\ IF variant = 1
                   THEN /\ last.thrown <=> (Falsy(last.type) /\ SelfMap.present)
                        /\ last.forced <=> (~SelfMap.present
                              \/ (~Falsy(last.type) /\ EventTags \cap MapKeys(SelfMap) # {}))
                   ELSE /\ last.thrown <=> ~SelfMap.present
                        /\ last.forced <=> (SelfMap.present
                                            /\ ToPropertyKey(last.type) \in MapKeys(SelfMap))
                /\ last.forced => pending[Self]

\* The onMount callback of a connector with the map {X: ...} made the
\* connector's Store emit a change of X: the handler got it and an update is
\* pending.
C19_Witness == /\ last.op = "componentDidMount" /\ SelfProps._onMount
    /\ last.emit = [store |-> SelfProps._store, type |-> Tag("X")]
    /\ MapKeys(SelfMap) = {"X"}
    /\ last.delivered /\ last.forced
    /\ pending[Self] /\ phase[Self] = "mounted"

\* C20: in the first variant, a change a Store emits while the onUnmount
\* callback runs is not delivered to the connector's handler, which was
\* deregistered before the callback was called, and the flag was set before:
\* componentWillUnmount requests no update and leaves what was pending as it
\* was.
C20_EmitDuringOnUnmount ==
    /\ [](last.op = "componentWillUnmount"
             => /\ unmounted[Self] /\ Registered(Self) = {} /\ unsubscribe[Self] = NoStore
                /\ ~last.delivered /\ ~last.forced /\ ~last.thrown)
    /\ [][\A c \in Conns : (phase[c] = "mounted" /\ phase'[c] = "unmounted")
             => pending'[c] = pending[c]]_vars

\* The onUnmount callback of a connector with the map {X: ...} made the Store
\* the connector had just left emit a change of X: the handler was not called.
C20_Witness == /\ last.op = "componentWillUnmount" /\ variant = 1 /\ SelfProps._onUnmount
    /\ last.emit = [store |-> last.prevSub, type |-> Tag("X")]
    /\ last.prevSub = SelfProps._store
    /\ MapKeys(SelfMap) = {"X"}
    /\ ~last.delivered /\ ~last.forced /\ ~pending[Self]
    /\ last.calls = <<Call("removeChangeListener", last.prevSub)>>

\* The number of Store calls of the given name that the handler that ran last
\* made on Store s.
CallsOn(calls, name, s) == Cardinality({i \in DOMAIN calls : calls[i] = Call(name, s)})

\* C14: with several connectors on the same Stores, in any order of their
\* mounts, renders, changes of Store, notifications and unmounts: no step
\* changes what a Store holds; a step changes no registration but those of the
\* connector whose handler runs, and those exactly by that handler's
\* addChangeListener and removeChangeListener calls; and no handler is ever
\* registered twice with a Store.
C14_OnlyOwnHandler ==
    /\ [](\A s \in Stores : \A c \in Conns : listeners[s][c] <= 1)
    /\ [][/\ storeData' = storeData
          /\ \A s \in Stores : \A c \in Conns :
                IF c = last'.conn /\ last' # last
                THEN listeners'[s][c] = listeners[s][c]
                        + CallsOn(last'.calls, "addChangeListener", s)
                        - CallsOn(last'.calls, "removeChangeListener", s)
                ELSE listeners'[s][c] = listeners[s][c]]_vars

\* Two connectors were mounted on Store 1 and the first has been unmounted:
\* it removed its handler and the second is still registered, once.
C14_Witness == /\ last.op = "componentWillUnmount" /\ Self = 1
    /\ last.calls = <<Call("removeChangeListener", 1)>>
    /\ phase[2] = "mounted" /\ props[2]._store = 1
    /\ listeners[1][1] = 0
    /\ listeners[1][2] = 1

====
